---------------------------- MODULE Spec2Model ----------------------------
(***************************************************************************)
(* Descriptive<T> (Descriptive.h): a streaming accumulator of descriptive  *)
(* statistics.  add(v) appends an observation and updates sum, max and the *)
(* running variance; get_min and get_median partially sort the stored      *)
(* values on demand, behind the is_sorted cache flag.                      *)
(*                                                                         *)
(* Numbers.  Observations are integers (they are exactly representable in  *)
(* int and in double).  The double results (a, q, mean, median) are exact  *)
(* rationals [n, d] in lowest terms: rounding is not modelled.  A value of *)
(* type T that need not be an integer (max, whose initial value for        *)
(* T = double is 2^-1022) is written [n, e] and stands for n + e * 2^-1022.*)
(***************************************************************************)
EXTENDS Integers, Sequences, FiniteSets, TLC

\* Largest number of observations added in a run.
MaxCount == 6

\* The observations passed to add.
Vals == {-1, 0, 2}

\* The instantiations of the template parameter T.
Types == {"int", "double"}

VARIABLES
    T,          \* the template argument of this instance
    sum,        \* T sum
    max,        \* T max, as [n, e]
    values,     \* std::vector<T> values
    a,          \* double a: running mean
    q,          \* double q: running sum of squared deviations
    is_sorted,  \* mutable bool is_sorted
    added,      \* history: the arguments of add, in call order
    last,       \* history: the operation called last
    ret,        \* history: what the last operation returned (a sequence of results)
    reads,      \* history: the zero-based indices of values the last operation read
    sort_ran    \* history: "none", "cached" (sort() returned early) or "sorted"

vars == <<T, sum, max, values, a, q, is_sorted, added, last, ret, reads, sort_ran>>

---------------------------------------------------------------------------
\* Exact arithmetic standing for double.

Abs(x) == IF x < 0 THEN -x ELSE x

RECURSIVE GCD(_, _)
GCD(x, y) == IF y = 0 THEN x ELSE GCD(y, x % y)

\* The rational n/d (d # 0) in lowest terms with a positive denominator.
Rat(n, d) ==
    LET g == GCD(Abs(n), Abs(d))
        s == IF d < 0 THEN -1 ELSE 1
    IN  [n |-> (s * n) \div g, d |-> (s * d) \div g]

RInt(x) == [n |-> x, d |-> 1]
RAdd(x, y) == Rat(x.n * y.d + y.n * x.d, x.d * y.d)
RSub(x, y) == Rat(x.n * y.d - y.n * x.d, x.d * y.d)
RMul(x, y) == Rat(x.n * y.n, x.d * y.d)
RDivInt(x, k) == Rat(x.n, x.d * k)

---------------------------------------------------------------------------
\* Values of type T.

TVal(n) == [n |-> n, e |-> 0]

\* std::numeric_limits<int>::min()
IntMin == -2147483647 - 1

\* std::numeric_limits<double>::min(): the smallest positive normalized
\* double, 2^-1022.
DblMin == [n |-> 0, e |-> 1]

\* std::numeric_limits<T>::min()
NumericLimitsMin(t) == IF t = "int" THEN TVal(IntMin) ELSE DblMin

\* x > y for two values of T
TGreater(x, y) == x.n > y.n \/ (x.n = y.n /\ x.e > y.e)

---------------------------------------------------------------------------
\* Results of the operations.

IntRes(n) == [k |-> "int", n |-> n, d |-> 1, e |-> 0]
TRes(x) == [k |-> "T", n |-> x.n, d |-> 1, e |-> x.e]
DoubleRes(r) == [k |-> "double", n |-> r.n, d |-> r.d, e |-> 0]
\* sqrt(r), kept as its radicand
SqrtRes(r) == [k |-> "sqrt", n |-> r.n, d |-> r.d, e |-> 0]
NaN == [k |-> "nan", n |-> 0, d |-> 1, e |-> 0]
\* an empty field of the rendered line
EmptyField == [k |-> "empty", n |-> 0, d |-> 1, e |-> 0]

---------------------------------------------------------------------------
\* std::partial_sort

\* s with x inserted before the first element greater than x
RECURSIVE Insert(_, _)
Insert(s, x) ==
    IF s = <<>> THEN <<x>>
    ELSE IF x <= Head(s) THEN <<x>> \o s
    ELSE <<Head(s)>> \o Insert(Tail(s), x)

\* s in ascending order
RECURSIVE Ascending(_)
Ascending(s) == IF s = <<>> THEN <<>> ELSE Insert(Ascending(Tail(s)), Head(s))

\* the arrangements of the sequence s
Arrangements(s) ==
    { [i \in 1..Len(s) |-> s[p[i]]] : p \in Permutations(1..Len(s)) }

\* Mutant of PartialSort: the whole range is rearranged, nothing is ordered.
PartialSortUnordered(s, middle) == Arrangements(s)

\* partial_sort(first, first + middle, last): the middle smallest elements
\* in ascending order in front, the remaining elements after them in an
\* unspecified order.
PartialSort(s, middle) ==
    LET asc == Ascending(s)
    IN  { SubSeq(asc, 1, middle) \o r : r \in Arrangements(SubSeq(asc, middle + 1, Len(s))) }

\* Mutant of Middle: the prefix stops one element short.
MiddleShort(s) == Len(s) \div 2

\* values.size() / 2 + 1
Middle(s) == Len(s) \div 2 + 1

\* Mutant of SortOutcomes: sort() sets the flag without sorting.
SortOutcomesSkipped == {values}

\* sort(): what values may hold when it returns
SortOutcomes ==
    IF is_sorted THEN {values} ELSE PartialSort(values, Middle(values))

\* sort(): whether partial_sort ran
SortRan == IF is_sorted THEN "cached" ELSE "sorted"

\* values[i] of the vector s: the element, or, past the end, whatever the
\* memory there holds
ReadAt(s, i) == IF i < Len(s) THEN {s[i + 1]} ELSE Vals

---------------------------------------------------------------------------
\* The operations.

Init ==
    /\ T \in Types
    /\ sum = 0
    /\ max = NumericLimitsMin(T)
    /\ values = <<>>
    /\ a = RInt(0)
    /\ q = RInt(0)
    /\ is_sorted = TRUE
    /\ added = <<>>
    /\ last = "Descriptive"
    /\ ret = <<>>
    /\ reads = {}
    /\ sort_ran = "none"

\* Mutant of AddIsSorted: add leaves the flag as it is.
AddIsSortedKept == is_sorted

\* is_sorted after add
AddIsSorted == FALSE

\* a after add(v), the vector holding n elements by then
AddA(v, n) == RAdd(a, RDivInt(RSub(RInt(v), a), n))

\* Mutant of AddQ: both factors use the updated mean.
AddQNewMeanOnly(v, a_prev, a_new) ==
    RAdd(q, RMul(RSub(RInt(v), a_new), RSub(RInt(v), a_new)))

\* q after add(v); a_prev is a before the call and a_new after it
AddQ(v, a_prev, a_new) ==
    RAdd(q, RMul(RSub(RInt(v), a_prev), RSub(RInt(v), a_new)))

\* max after add(v)
AddMax(v) == IF TGreater(TVal(v), max) THEN TVal(v) ELSE max

Add(v) ==
    /\ Len(values) < MaxCount
    /\ values' = Append(values, v)
    /\ is_sorted' = AddIsSorted
    /\ sum' = sum + v
    /\ max' = AddMax(v)
    /\ a' = AddA(v, Len(values) + 1)
    /\ q' = AddQ(v, a, AddA(v, Len(values) + 1))
    /\ added' = Append(added, v)
    /\ last' = "add"
    /\ ret' = <<>>
    /\ reads' = {}
    /\ sort_ran' = "none"
    /\ UNCHANGED T

\* A query that does not call sort() returns r.
Query(name, r) ==
    /\ last' = name
    /\ ret' = <<r>>
    /\ reads' = {}
    /\ sort_ran' = "none"
    /\ UNCHANGED <<T, sum, max, values, a, q, is_sorted, added>>

GetSum == Query("get_sum", TRes(TVal(sum)))

GetCount == Query("get_count", IntRes(Len(values)))

GetMax == Query("get_max", TRes(max))

\* (double)sum / values.size(); 0.0 / 0 is not a number
MeanRes == IF Len(values) = 0 THEN NaN ELSE DoubleRes(Rat(sum, Len(values)))

GetMean == Query("get_mean", MeanRes)

\* Mutant of StandardDeviationRes: 0 for an empty population.
StandardDeviationZero ==
    IF Len(values) # 0 THEN SqrtRes(RDivInt(q, Len(values))) ELSE DoubleRes(RInt(0))

\* values.size() ? sqrt(q / values.size()) : nan("")
StandardDeviationRes ==
    IF Len(values) # 0 THEN SqrtRes(RDivInt(q, Len(values))) ELSE NaN

GetStandardDeviation == Query("get_standard_deviation", StandardDeviationRes)

\* get_min(); its callers check get_count() first (operator <<)
GetMin ==
    /\ Len(values) # 0
    /\ \E s \in SortOutcomes :
        /\ values' = s
        /\ ret' = <<TRes(TVal(s[1]))>>
    /\ is_sorted' = TRUE
    /\ sort_ran' = SortRan
    /\ reads' = {0}
    /\ last' = "get_min"
    /\ UNCHANGED <<T, sum, max, a, q, added>>

\* the indices get_median reads in a vector of n > 0 elements
MedianIndices(n) == IF n % 2 = 0 THEN {n \div 2, n \div 2 + 1} ELSE {n \div 2}

GetMedian ==
    /\ last' = "get_median"
    /\ IF Len(values) = 0
       THEN /\ ret' = <<NaN>>
            /\ reads' = {}
            /\ sort_ran' = "none"
            /\ UNCHANGED <<values, is_sorted>>
       ELSE LET n == Len(values) IN
            /\ \E s \in SortOutcomes :
                /\ values' = s
                /\ IF n % 2 = 0
                   THEN \E x \in ReadAt(s, n \div 2), y \in ReadAt(s, n \div 2 + 1) :
                            ret' = <<DoubleRes(Rat(x + y, 2))>>
                   ELSE \E x \in ReadAt(s, n \div 2) :
                            ret' = <<DoubleRes(RInt(x))>>
            /\ is_sorted' = TRUE
            /\ sort_ran' = SortRan
            /\ reads' = MedianIndices(n)
    /\ UNCHANGED <<T, sum, max, a, q, added>>

\* operator <<: count, min, mean, max and standard deviation, or "0" and
\* four empty fields
Render ==
    /\ last' = "render"
    /\ IF Len(values) # 0
       THEN /\ \E s \in SortOutcomes :
                /\ values' = s
                /\ ret' = <<IntRes(Len(values)), TRes(TVal(s[1])), MeanRes,
                            TRes(max), StandardDeviationRes>>
            /\ is_sorted' = TRUE
            /\ sort_ran' = SortRan
            /\ reads' = {0}
       ELSE /\ ret' = <<IntRes(0), EmptyField, EmptyField, EmptyField, EmptyField>>
            /\ reads' = {}
            /\ sort_ran' = "none"
            /\ UNCHANGED <<values, is_sorted>>
    /\ UNCHANGED <<T, sum, max, a, q, added>>

Next ==
    \/ \E v \in Vals : Add(v)
    \/ GetSum
    \/ GetCount
    \/ GetMin
    \/ GetMax
    \/ GetMean
    \/ GetMedian
    \/ GetStandardDeviation
    \/ Render

Spec == Init /\ [][Next]_vars

---------------------------------------------------------------------------
\* What the observations added so far determine.

Count == Len(values)

RECURSIVE SumOf(_)
SumOf(s) == IF s = <<>> THEN 0 ELSE Head(s) + SumOf(Tail(s))

\* the sum of the squared deviations of the elements of s from m
RECURSIVE SquaredDeviations(_, _)
SquaredDeviations(s, m) ==
    IF s = <<>> THEN RInt(0)
    ELSE RAdd(RMul(RSub(RInt(Head(s)), m), RSub(RInt(Head(s)), m)),
              SquaredDeviations(Tail(s), m))

\* the population variance of s # <<>> by the two-pass formula
PopulationVariance(s) ==
    RDivInt(SquaredDeviations(s, Rat(SumOf(s), Len(s))), Len(s))

Smallest(s) == CHOOSE x \in {s[i] : i \in 1..Len(s)} : \A i \in 1..Len(s) : x <= s[i]
Greatest(s) == CHOOSE x \in {s[i] : i \in 1..Len(s)} : \A i \in 1..Len(s) : x >= s[i]

\* the observation at zero-based position i of the ascending order
AscendingAt(i) == Ascending(added)[i + 1]

Queries == {"get_count", "get_sum", "get_min", "get_max", "get_mean",
            "get_median", "get_standard_deviation"}

SortingCalls == {"get_min", "get_median", "render"}

---------------------------------------------------------------------------
\* The claims.

\* C1: with an even, non-zero count n, get_median() returns the average of
\* the observations at zero-based positions n/2 and n/2 + 1 of the ascending
\* order of the observations.
C1_EvenMedianAveragesUpperPair ==
    (last = "get_median" /\ Count # 0 /\ Count % 2 = 0) =>
        /\ Count \div 2 + 1 < Count
        /\ ret = <<DoubleRes(Rat(AscendingAt(Count \div 2) + AscendingAt(Count \div 2 + 1), 2))>>

\* C2: with an odd count n, get_median() returns the observation at
\* zero-based position n/2 of the ascending order, the exact middle.
C2_OddMedianIsMiddle ==
    (last = "get_median" /\ Count % 2 = 1) =>
        ret = <<DoubleRes(RInt(AscendingAt(Count \div 2)))>>

C2_Witness ==
    /\ last = "get_median"
    /\ added = <<2, 0, -1, 2, -1>>
    /\ ret = <<DoubleRes(RInt(0))>>

\* C3: after one or more adds, get_min() returns the least value added so
\* far.
C3_MinIsTrueMinimum ==
    last = "get_min" => ret = <<TRes(TVal(Smallest(added)))>>

C3_Witness ==
    /\ last = "get_min"
    /\ added = <<0, 2, -1, 0>>
    /\ ret = <<TRes(TVal(-1))>>

\* C4: get_max() is the greatest value ever added, and T's minimum
\* representable value (no value of T is below it) when nothing was added;
\* no query changes it.
C4_MaxIsGreatestOrLowest ==
    /\ Len(added) = 0 => \A v \in Vals : ~TGreater(max, TVal(v))
    /\ Len(added) # 0 => max = TVal(Greatest(added))
    /\ last = "get_max" => ret = <<TRes(max)>>

\* C5: with count >= 1, sum_sq_dev / count is the population variance of the
\* observations added so far, and get_standard_deviation() is its square
\* root, the two-pass population standard deviation.
C5_RunningVarianceIsPopulationVariance ==
    Count >= 1 =>
        /\ RDivInt(q, Count) = PopulationVariance(added)
        /\ last = "get_standard_deviation" =>
               ret = <<SqrtRes(PopulationVariance(added))>>

C5_Witness ==
    /\ last = "get_standard_deviation"
    /\ added = <<-1, 0, 2>>
    /\ ret = <<SqrtRes(Rat(14, 9))>>

\* C6: a query called twice in a row with no add in between returns the
\* same result, and the second call changes neither values nor is_sorted
\* and does not sort.
C6_QueriesIdempotent ==
    [][(last \in Queries /\ last' = last) =>
          /\ ret' = ret
          /\ values' = values
          /\ is_sorted' = is_sorted
          /\ sort_ran' # "sorted"]_vars

C8_SortCacheTransitions ==
    [][/\ last = "Descriptive" => is_sorted
       /\ last' = "add" => ~is_sorted'
       /\ (~is_sorted /\ is_sorted') => (last' \in SortingCalls /\ sort_ran' = "sorted")
       /\ (is_sorted /\ last' # "add") => is_sorted']_vars

C8_Witness ==
    /\ is_sorted
    /\ last = "get_mean"
    /\ Count = 4
    /\ values # added

\* C9: with is_sorted true and count >= 1, values is a permutation of the
\* observations added, its first count/2 + 1 entries are the count/2 + 1
\* smallest in ascending order, and no later entry is below one of them.
C9_SortedPrefix ==
    (is_sorted /\ Count >= 1) =>
        LET k == Count \div 2 + 1 IN
        /\ Ascending(values) = Ascending(added)
        /\ SubSeq(values, 1, k) = SubSeq(Ascending(added), 1, k)
        /\ \A i \in 1..k, j \in (k + 1)..Count : values[i] <= values[j]

C9_Witness ==
    /\ is_sorted
    /\ Count = 6
    /\ values[5] > values[6]
    /\ values # added

\* C10: with count >= 1, the prefix bound given to the partial sort is at
\* most count, and every index get_min and get_median read is below count
\* and inside the sorted prefix.
C10_ReadsInsideSortedPrefix ==
    Count >= 1 =>
        /\ Middle(values) <= Count
        /\ last \in SortingCalls =>
               \A i \in reads : i < Count /\ i < Middle(values)

=============================================================================
